---- MODULE Spec2Model ----
(***************************************************************************)
(* MockLLMProvider (core/framework/llm/mock.py) and the logging            *)
(* configuration (core/framework/logging_config.py) as state machines.     *)
(*                                                                         *)
(* A Python str is a sequence of one-character strings, so that len(),     *)
(* "in", lower(), upper(), slicing, repr() and str() are computed the way  *)
(* Python computes them.  None is a record with is_none = TRUE.            *)
(***************************************************************************)
EXTENDS Integers, Sequences, FiniteSets, TLC

VARIABLES
    model,              \* self.model
    default_response,   \* self.default_response (None or a str)
    call_count,         \* self._call_count
    made,               \* history: calls made since construction or the last reset()
    last,               \* the most recent operation: its arguments, locals and result
    remembered,         \* history: an earlier complete() call kept for comparison
    request,            \* the arguments a caller holds for its calls (SpecRequest)
    pc,                 \* per thread: where it is inside a call (SpecThreads)
    tmp,                \* per thread: the value loaded by self._call_count += 1
    op_of,              \* per thread: the operation it is running
    started,            \* calls begun by all threads
    finished,           \* calls that returned, over all threads
    root_level,         \* logging.getLogger().level
    root_handlers,      \* logging.getLogger().handlers
    loggerDict,         \* logging.Logger.manager.loggerDict
    log_call,           \* the most recent logging_config call and its arguments
    outcome             \* how that call ended: "ok", "ValueError" or "OSError"

providerVars == <<model, default_response, call_count, made, last, remembered, request>>
threadVars == <<pc, tmp, op_of, started, finished>>
logVars == <<root_level, root_handlers, loggerDict, log_call, outcome>>
vars == <<providerVars, threadVars, logVars>>

(***************************************************************************)
(* Bounds of the model.                                                    *)
(***************************************************************************)
MaxCalls == 3
MaxMsgs == 2
NumThreads == 2
ThreadCalls == 3

(***************************************************************************)
(* Python str operations.                                                  *)
(***************************************************************************)
UpperLetters == <<"A","B","C","D","E","F","G","H","I","J","K","L","M","N","O","P","Q","R","S","T","U","V","W","X","Y","Z">>
LowerLetters == <<"a","b","c","d","e","f","g","h","i","j","k","l","m","n","o","p","q","r","s","t","u","v","w","x","y","z">>
DecimalDigits == <<"0","1","2","3","4","5","6","7","8","9">>

IndexIn(c, alphabet) ==
    IF \E i \in 1..Len(alphabet) : alphabet[i] = c
    THEN CHOOSE i \in 1..Len(alphabet) : alphabet[i] = c
    ELSE 0

\* each character of s found in from replaced by the one at its place in to
MapChars(s, from, to) ==
    [i \in 1..Len(s) |->
        LET k == IndexIn(s[i], from) IN IF k = 0 THEN s[i] ELSE to[k]]

\* str.lower() and str.upper() on ASCII text
PyLower(s) == MapChars(s, UpperLetters, LowerLetters)
PyUpper(s) == MapChars(s, LowerLetters, UpperLetters)

\* sub in s
Contains(s, sub) ==
    \E i \in 1..(Len(s) - Len(sub) + 1) : SubSeq(s, i, i + Len(sub) - 1) = sub

\* s.startswith(prefix)
StartsWith(s, prefix) ==
    Len(prefix) <= Len(s) /\ SubSeq(s, 1, Len(prefix)) = prefix

\* s[:n]
Slice(s, n) == SubSeq(s, 1, IF Len(s) < n THEN Len(s) ELSE n)

RECURSIVE PyStrInt(_)
\* str(n) for n >= 0
PyStrInt(n) ==
    IF n < 10 THEN <<DecimalDigits[n + 1]>>
    ELSE PyStrInt(n \div 10) \o <<DecimalDigits[(n % 10) + 1]>>

RECURSIVE Join(_, _)
\* sep.join(parts)
Join(parts, sep) ==
    IF parts = <<>> THEN <<>>
    ELSE IF Len(parts) = 1 THEN parts[1]
    ELSE parts[1] \o sep \o Join(Tail(parts), sep)

EscapeChar(c, quote) ==
    IF c = "\\" THEN <<"\\", "\\">>
    ELSE IF c = quote THEN <<"\\", quote>>
    ELSE <<c>>

RECURSIVE EscapeChars(_, _)
\* the characters of s, each escaped as repr() escapes it (by halves, to keep
\* the evaluation shallow)
EscapeChars(s, quote) ==
    IF s = <<>> THEN <<>>
    ELSE IF Len(s) = 1 THEN EscapeChar(s[1], quote)
    ELSE LET half == Len(s) \div 2
         IN EscapeChars(SubSeq(s, 1, half), quote)
            \o EscapeChars(SubSeq(s, half + 1, Len(s)), quote)

\* repr(s) of a str of printable ASCII: single quotes unless s holds a single
\* quote and no double quote; backslashes and the chosen quote are escaped
PyReprStr(s) ==
    LET sq == "'"
        dq == "\""
        has(c) == \E i \in 1..Len(s) : s[i] = c
        quote == IF has(sq) /\ ~has(dq) THEN dq ELSE sq
    IN <<quote>> \o EscapeChars(s, quote) \o <<quote>>

RECURSIVE MapRepr(_)
MapRepr(strs) ==
    IF strs = <<>> THEN <<>> ELSE <<PyReprStr(Head(strs))>> \o MapRepr(Tail(strs))

\* repr of a list of str
PyReprStrList(strs) == <<"[">> \o Join(MapRepr(strs), <<","," ">>) \o <<"]">>

\* repr of a message dict {"role": ..., "content": ...}, the content key optional
PyReprMessage(msg) ==
    <<"{","'","r","o","l","e","'",":"," ">> \o PyReprStr(msg.role)
    \o (IF msg.has_content THEN <<","," ","'","c","o","n","t","e","n","t","'",":"," ">> \o PyReprStr(msg.content) ELSE <<>>)
    \o <<"}">>

RECURSIVE MapReprMessage(_)
MapReprMessage(messages) ==
    IF messages = <<>> THEN <<>>
    ELSE <<PyReprMessage(Head(messages))>> \o MapReprMessage(Tail(messages))

\* str(messages)
PyStrMessages(messages) == <<"[">> \o Join(MapReprMessage(messages), <<","," ">>) \o <<"]">>

(***************************************************************************)
(* JSON syntax (RFC 8259), as json.loads accepts it.  Every recogniser      *)
(* takes the text and a position and returns the position after what it    *)
(* recognised, or 0.                                                       *)
(***************************************************************************)
At(s, i) == IF 1 <= i /\ i <= Len(s) THEN s[i] ELSE ""

IsDigit(c) == \E i \in 1..Len(DecimalDigits) : DecimalDigits[i] = c
IsHex(c) == IsDigit(c) \/ c \in {"a", "b", "c", "d", "e", "f", "A", "B", "C", "D", "E", "F"}
IsWs(c) == c \in {" ", "\t", "\n", "\r"}

RECURSIVE SkipWs(_, _)
SkipWs(s, i) == IF IsWs(At(s, i)) THEN SkipWs(s, i + 1) ELSE i

RECURSIVE DigitsEnd(_, _)
DigitsEnd(s, i) == IF IsDigit(At(s, i)) THEN DigitsEnd(s, i + 1) ELSE i

JsonLiteral(s, i, word) ==
    IF i + Len(word) - 1 <= Len(s) /\ SubSeq(s, i, i + Len(word) - 1) = word
    THEN i + Len(word) ELSE 0

JsonNumber(s, i) ==
    LET a == IF At(s, i) = "-" THEN i + 1 ELSE i
        b == IF ~IsDigit(At(s, a)) THEN 0
             ELSE IF At(s, a) = "0" THEN a + 1 ELSE DigitsEnd(s, a)
        c == IF b = 0 THEN 0
             ELSE IF At(s, b) # "." THEN b
             ELSE IF DigitsEnd(s, b + 1) > b + 1 THEN DigitsEnd(s, b + 1) ELSE 0
        d == IF c = 0 THEN 0
             ELSE IF At(s, c) \notin {"e", "E"} THEN c
             ELSE LET e == IF At(s, c + 1) \in {"+", "-"} THEN c + 2 ELSE c + 1
                  IN IF DigitsEnd(s, e) > e THEN DigitsEnd(s, e) ELSE 0
    IN d

RECURSIVE JsonStringBody(_, _)
\* i is the position after the opening quote
JsonStringBody(s, i) ==
    LET c == At(s, i) IN
    IF c = "" THEN 0
    ELSE IF c = "\"" THEN i + 1
    ELSE IF c \in {"\t", "\n", "\r"} THEN 0
    ELSE IF c # "\\" THEN JsonStringBody(s, i + 1)
    ELSE IF At(s, i + 1) \in {"\"", "\\", "/", "b", "f", "n", "r", "t"}
         THEN JsonStringBody(s, i + 2)
    ELSE IF At(s, i + 1) = "u" /\ \A k \in 2..5 : IsHex(At(s, i + k))
         THEN JsonStringBody(s, i + 6)
    ELSE 0

RECURSIVE JsonValue(_, _), JsonMembers(_, _), JsonElements(_, _)
\* i is at the first character of the value
JsonValue(s, i) ==
    LET c == At(s, i) IN
    IF c = "{" THEN (IF At(s, SkipWs(s, i + 1)) = "}" THEN SkipWs(s, i + 1) + 1
                     ELSE JsonMembers(s, SkipWs(s, i + 1)))
    ELSE IF c = "[" THEN (IF At(s, SkipWs(s, i + 1)) = "]" THEN SkipWs(s, i + 1) + 1
                          ELSE JsonElements(s, SkipWs(s, i + 1)))
    ELSE IF c = "\"" THEN JsonStringBody(s, i + 1)
    ELSE IF c = "t" THEN JsonLiteral(s, i, <<"t","r","u","e">>)
    ELSE IF c = "f" THEN JsonLiteral(s, i, <<"f","a","l","s","e">>)
    ELSE IF c = "n" THEN JsonLiteral(s, i, <<"n","u","l","l">>)
    ELSE IF c = "-" \/ IsDigit(c) THEN JsonNumber(s, i)
    ELSE 0

\* i is at the first character of a member "key": value
JsonMembers(s, i) ==
    LET k == IF At(s, i) = "\"" THEN JsonStringBody(s, i + 1) ELSE 0
        colon == IF k = 0 THEN 0 ELSE SkipWs(s, k)
        v == IF colon = 0 \/ At(s, colon) # ":" THEN 0
             ELSE JsonValue(s, SkipWs(s, colon + 1))
        after == IF v = 0 THEN 0 ELSE SkipWs(s, v)
    IN IF after = 0 THEN 0
       ELSE IF At(s, after) = "}" THEN after + 1
       ELSE IF At(s, after) = "," THEN JsonMembers(s, SkipWs(s, after + 1))
       ELSE 0

\* i is at the first character of an array element
JsonElements(s, i) ==
    LET v == JsonValue(s, i)
        after == IF v = 0 THEN 0 ELSE SkipWs(s, v)
    IN IF after = 0 THEN 0
       ELSE IF At(s, after) = "]" THEN after + 1
       ELSE IF At(s, after) = "," THEN JsonElements(s, SkipWs(s, after + 1))
       ELSE 0

\* json.loads(s) succeeds
IsValidJSON(s) ==
    LET v == JsonValue(s, SkipWs(s, 1))
    IN v # 0 /\ SkipWs(s, v) = Len(s) + 1

(***************************************************************************)
(* MockLLMProvider: values.                                                *)
(***************************************************************************)
None == [is_none |-> TRUE, value |-> <<>>]
Some(v) == [is_none |-> FALSE, value |-> v]

\* bool(x) of an optional str or list: None and the empty value are false
Truthy(opt) == ~opt.is_none /\ opt.value # <<>>

Message(role, content) == [role |-> role, has_content |-> TRUE, content |-> content]
MessageNoContent(role) == [role |-> role, has_content |-> FALSE, content |-> <<>>]
Tool(name) == [name |-> name]

USER == <<"u","s","e","r">>
ASSISTANT == <<"a","s","s","i","s","t","a","n","t">>

\* the canned responses of _generate_contextual_response
SEARCH_RESPONSE == <<"[","M","o","c","k","]"," ","S","e","a","r","c","h"," ","r","e","s","u","l","t","s",":"," ","F","o","u","n","d"," ","3"," ","r","e","l","e","v","a","n","t"," ","s","o","u","r","c","e","s","."," ","1",")"," ","E","x","a","m","p","l","e"," ","a","r","t","i","c","l","e",","," ","2",")"," ","R","e","s","e","a","r","c","h"," ","p","a","p","e","r",","," ","3",")"," ","D","o","c","u","m","e","n","t","a","t","i","o","n",".">>
SUMMARY_RESPONSE == <<"[","M","o","c","k","]"," ","S","u","m","m","a","r","y",":"," ","K","e","y"," ","p","o","i","n","t","s"," ","e","x","t","r","a","c","t","e","d"," ","f","r","o","m"," ","t","h","e"," ","c","o","n","t","e","n","t","."," ","M","a","i","n"," ","f","i","n","d","i","n","g","s"," ","a","n","d"," ","c","o","n","c","l","u","s","i","o","n","s"," ","i","n","c","l","u","d","e","d",".">>
PARSED_RESPONSE == <<"[","M","o","c","k","]"," ","P","a","r","s","e","d",":"," ","t","o","p","i","c","=","'","e","x","a","m","p","l","e","'",","," ","k","e","y","w","o","r","d","s","=","[","'","m","o","c","k","'",","," ","'","t","e","s","t","'","]">>
EVALUATION_RESPONSE == <<"[","M","o","c","k","]"," ","E","v","a","l","u","a","t","i","o","n",":"," ","S","c","o","r","e"," ","8","5","/","1","0","0","."," ","Q","u","a","l","i","t","y",":"," ","G","o","o","d","."," ","S","t","a","t","u","s",":"," ","A","p","p","r","o","v","e","d",".">>
REPORT_RESPONSE == <<"[","M","o","c","k","]"," ","R","e","p","o","r","t"," ","g","e","n","e","r","a","t","e","d"," ","w","i","t","h"," ","i","n","t","r","o","d","u","c","t","i","o","n",","," ","f","i","n","d","i","n","g","s",","," ","a","n","d"," ","c","o","n","c","l","u","s","i","o","n"," ","s","e","c","t","i","o","n","s",".">>
FallbackResponse(count) ==
    <<"[","M","o","c","k","]"," ","P","r","o","c","e","s","s","e","d"," ","r","e","q","u","e","s","t"," ","(","c","a","l","l"," ","#">> \o PyStrInt(count)
    \o <<")","."," ","T","h","i","s"," ","i","s"," ","a"," ","m","o","c","k"," ","r","e","s","p","o","n","s","e"," ","f","o","r"," ","t","e","s","t","i","n","g"," ","w","i","t","h","o","u","t"," ","A","P","I"," ","c","a","l","l","s",".">>

\* the fixed content of json_mode
JSON_RESPONSE == <<"{","\"","s","t","a","t","u","s","\"",":"," ","\"","s","u","c","c","e","s","s","\"",","," ","\"","m","o","c","k","\"",":"," ","t","r","u","e",","," ","\"","m","e","s","s","a","g","e","\"",":"," ","\"","M","o","c","k"," ","r","e","s","p","o","n","s","e","\"","}">>

\* how many characters of the last user message complete_with_tools keeps
ContextLimit == 100

\* one estimated token per this many characters
CharsPerToken == 4

(***************************************************************************)
(* MockLLMProvider: the pure parts of its methods.                         *)
(***************************************************************************)
\* str(msg.get("content", ""))
ContentStr(msg) == IF msg.has_content THEN msg.content ELSE <<>>

RECURSIVE LastUserMessageFirst(_)
LastUserMessageFirst(messages) ==
    IF messages = <<>> THEN <<>>
    ELSE IF Head(messages).role = USER THEN ContentStr(Head(messages))
    ELSE LastUserMessageFirst(Tail(messages))

RECURSIVE LastUserMessage(_)
\* the loop over reversed(messages): the content of the last message whose
\* role is "user", "" when there is none
LastUserMessage(messages) ==
    IF messages = <<>> THEN <<>>
    ELSE LET msg == messages[Len(messages)]
         IN IF msg.role = USER THEN ContentStr(msg)
            ELSE LastUserMessage(SubSeq(messages, 1, Len(messages) - 1))

GenerateContextualResponseSummaryFirst(user_message, system, count) ==
    LET combined == PyLower(user_message \o system) IN
    IF Contains(combined, <<"s","u","m","m","a","r">>) THEN SUMMARY_RESPONSE
    ELSE IF Contains(combined, <<"s","e","a","r","c","h">>) THEN SEARCH_RESPONSE
    ELSE IF Contains(combined, <<"p","a","r","s","e">>) \/ Contains(combined, <<"e","x","t","r","a","c","t">>)
         THEN PARSED_RESPONSE
    ELSE IF Contains(combined, <<"e","v","a","l","u","a","t">>) \/ Contains(combined, <<"q","u","a","l","i","t","y">>)
         THEN EVALUATION_RESPONSE
    ELSE IF Contains(combined, <<"w","r","i","t","e">>) \/ Contains(combined, <<"r","e","p","o","r","t">>)
         THEN REPORT_RESPONSE
    ELSE FallbackResponse(count)

\* _generate_contextual_response; count is self._call_count as it reads it
GenerateContextualResponse(user_message, system, count) ==
    LET combined == PyLower(user_message \o system) IN
    IF Contains(combined, <<"s","e","a","r","c","h">>) THEN SEARCH_RESPONSE
    ELSE IF Contains(combined, <<"s","u","m","m","a","r">>) THEN SUMMARY_RESPONSE
    ELSE IF Contains(combined, <<"p","a","r","s","e">>) \/ Contains(combined, <<"e","x","t","r","a","c","t">>)
         THEN PARSED_RESPONSE
    ELSE IF Contains(combined, <<"e","v","a","l","u","a","t">>) \/ Contains(combined, <<"q","u","a","l","i","t","y">>)
         THEN EVALUATION_RESPONSE
    ELSE IF Contains(combined, <<"w","r","i","t","e">>) \/ Contains(combined, <<"r","e","p","o","r","t">>)
         THEN REPORT_RESPONSE
    ELSE FallbackResponse(count)

CompleteContentNumbered(dr, messages, system, json_mode, count) ==
    (IF Truthy(dr) THEN dr.value
     ELSE IF json_mode THEN JSON_RESPONSE
     ELSE GenerateContextualResponse(LastUserMessage(messages), system, count))
    \o <<" ","#">> \o PyStrInt(count)

\* the if / elif / else that chooses complete()'s content
CompleteContent(dr, messages, system, json_mode, count) ==
    IF Truthy(dr) THEN dr.value
    ELSE IF json_mode THEN JSON_RESPONSE
    ELSE GenerateContextualResponse(LastUserMessage(messages), system, count)

TokenEstimateCeiling(text) == (Len(text) + CharsPerToken - 1) \div CharsPerToken

\* len(text) // 4
TokenEstimate(text) == Len(text) \div CharsPerToken

NextCountTwice(count) == count + 2

\* self._call_count += 1, from the value it loaded
NextCount(count) == count + 1

RECURSIVE NamesOf(_)
NamesOf(tools) ==
    IF tools = <<>> THEN <<>> ELSE <<Head(tools).name>> \o NamesOf(Tail(tools))

ToolNamesFirstOnly(tools) ==
    IF Truthy(tools) THEN <<Head(tools.value).name>> ELSE <<>>

\* [t.name for t in tools] if tools else []
ToolNames(tools) == IF Truthy(tools) THEN NamesOf(tools.value) ELSE <<>>

\* the content of complete_with_tools
ToolsContent(tool_names, last_message) ==
    <<"[","M","o","c","k","]"," ","P","r","o","c","e","s","s","e","d"," ","w","i","t","h"," ","t","o","o","l","s",":"," ">> \o PyReprStrList(tool_names)
    \o <<"."," ","C","o","n","t","e","x","t",":"," ">> \o last_message \o <<".",".",".">>

LLMResponse(content, mdl, messages, raw) ==
    [content |-> content,
     model |-> mdl,
     input_tokens |-> TokenEstimate(PyStrMessages(messages)),
     output_tokens |-> TokenEstimate(content),
     stop_reason |-> "end_turn",
     raw_response |-> raw]

RawComplete(count) == [mock |-> TRUE, call_count |-> Some(count), tools_available |-> None]
RawTools(tool_names) == [mock |-> TRUE, call_count |-> None, tools_available |-> Some(tool_names)]

(***************************************************************************)
(* The record of an operation: arguments, the locals the claims read, and  *)
(* the result.  loop is the path of complete_with_tools through the states *)
(* AWAITING_MODEL, EXECUTING_TOOL, DONE; executor_calls counts the calls   *)
(* of tool_executor.                                                       *)
(***************************************************************************)
NoResponse ==
    [content |-> <<>>, model |-> "", input_tokens |-> 0, output_tokens |-> 0,
     stop_reason |-> "", raw_response |-> [mock |-> FALSE, call_count |-> None,
                                           tools_available |-> None]]

NoCall ==
    [op |-> "none", messages |-> <<>>, system |-> <<>>, json_mode |-> FALSE,
     tools |-> None, max_iterations |-> 0, last_message |-> <<>>,
     count_before |-> 0, loop |-> <<>>, executor_calls |-> 0,
     response |-> NoResponse]

ResetCall == [NoCall EXCEPT !.op = "reset"]

CompleteCall(dr, mdl, count, messages, system, json_mode) ==
    [NoCall EXCEPT
        !.op = "complete",
        !.messages = messages,
        !.system = system,
        !.json_mode = json_mode,
        !.last_message = LastUserMessage(messages),
        !.count_before = count,
        !.response = LLMResponse(
            CompleteContent(dr, messages, system, json_mode, NextCount(count)),
            mdl, messages, RawComplete(NextCount(count)))]

CompleteWithToolsCall(mdl, count, messages, system, tools, max_iterations) ==
    LET last_message == Slice(LastUserMessage(messages), ContextLimit)
        tool_names == ToolNames(tools)
    IN [NoCall EXCEPT
        !.op = "complete_with_tools",
        !.messages = messages,
        !.system = system,
        !.tools = tools,
        !.max_iterations = max_iterations,
        !.last_message = last_message,
        !.count_before = count,
        !.loop = <<"AWAITING_MODEL", "DONE">>,
        !.executor_calls = 0,
        !.response = LLMResponse(ToolsContent(tool_names, last_message),
                                 mdl, messages, RawTools(tool_names))]

(***************************************************************************)
(* MockLLMProvider: the operations.                                        *)
(***************************************************************************)
\* complete(messages, system, json_mode=json_mode); tools, max_tokens and
\* response_format are accepted and never read
Complete(messages, system, json_mode, remember) ==
    /\ call_count < MaxCalls
    /\ call_count' = NextCount(call_count)
    /\ made' = made + 1
    /\ last' = CompleteCall(default_response, model, call_count,
                            messages, system, json_mode)
    /\ remembered' = IF remember THEN last' ELSE remembered
    /\ UNCHANGED <<model, default_response, request, threadVars, logVars>>

\* complete_with_tools(messages, system, tools, tool_executor, max_iterations)
CompleteWithTools(messages, system, tools, max_iterations) ==
    /\ call_count < MaxCalls
    /\ call_count' = NextCount(call_count)
    /\ made' = made + 1
    /\ last' = CompleteWithToolsCall(model, call_count, messages, system,
                                     tools, max_iterations)
    /\ UNCHANGED <<model, default_response, remembered, request, threadVars, logVars>>

ResetKeepsCount ==
    /\ call_count' = call_count
    /\ made' = 0
    /\ last' = ResetCall
    /\ UNCHANGED <<model, default_response, remembered, request, threadVars, logVars>>

\* reset()
Reset ==
    /\ call_count' = 0
    /\ made' = 0
    /\ last' = ResetCall
    /\ UNCHANGED <<model, default_response, remembered, request, threadVars, logVars>>

(***************************************************************************)
(* Inputs.                                                                 *)
(***************************************************************************)
\* default_response at construction: absent, empty, plain text, JSON text
Overrides == {None, Some(<<>>), Some(<<"h","e","l","l","o">>), Some(<<"{","\"","o","k","\"",":"," ","1","}">>)}

LongUserText == <<"P","l","e","a","s","e"," ","l","o","o","k"," ","a","t"," ","t","h","i","s"," ","r","e","q","u","e","s","t",","," ","w","h","i","c","h"," ","g","o","e","s"," ","o","n"," ","a","n","d"," ","o","n"," ","f","o","r"," ","w","e","l","l"," ","o","v","e","r"," ","o","n","e"," ","h","u","n","d","r","e","d"," ","c","h","a","r","a","c","t","e","r","s",","," ","a","n","d"," ","r","e","p","o","r","t"," ","b","a","c","k"," ","o","n"," ","i","t",".">>

SEARCH_WEB == <<"s","e","a","r","c","h","_","w","e","b">>
CALCULATOR == <<"c","a","l","c","u","l","a","t","o","r">>
ToolSets ==
    {None, Some(<<>>), Some(<<Tool(SEARCH_WEB)>>),
     Some(<<Tool(SEARCH_WEB), Tool(CALCULATOR)>>)}
IterationLimits == {0, 10}

\* the calls of Spec: a few of each branch, in any order
SeqMessages ==
    {<<>>, <<Message(USER, <<"S","e","a","r","c","h"," ","t","h","e"," ","w","e","b">>)>>, <<Message(USER, <<"h","i"," ","t","h","e","r","e">>)>>}
SeqSystems == {<<>>, <<"S","u","m","m","a","r","i","z","e",".">>}
SeqToolMessages == {<<>>, <<Message(USER, LongUserText)>>}

ThreadIds == 1..NumThreads
IdleThreads ==
    /\ pc = [t \in ThreadIds |-> "idle"]
    /\ tmp = [t \in ThreadIds |-> 0]
    /\ op_of = [t \in ThreadIds |-> "none"]
    /\ started = 0
    /\ finished = 0

\* the logging module as imported: the root logger at WARNING with no
\* handlers, no other logger created
LoggerNames == {<<"f","r","a","m","e","w","o","r","k">>, <<"f","r","a","m","e","w","o","r","k",".","l","l","m">>, <<"a","p","p">>}
Absent == [kind |-> "absent", level |-> 0]
NoLogCall == [op |-> "none", level |-> <<>>, name |-> <<>>]
FreshLogging ==
    /\ root_level = 30
    /\ root_handlers = <<>>
    /\ loggerDict = [name \in LoggerNames |-> Absent]
    /\ log_call = NoLogCall
    /\ outcome = "none"

\* MockLLMProvider(default_response=dr)
InitProvider ==
    /\ model = "mock-model"
    /\ default_response \in Overrides
    /\ call_count = 0
    /\ made = 0
    /\ last = NoCall
    /\ remembered = NoCall

Init ==
    /\ InitProvider
    /\ request = NoCall
    /\ IdleThreads
    /\ FreshLogging

Next ==
    \/ \E messages \in SeqMessages, system \in SeqSystems,
          json_mode \in BOOLEAN :
          Complete(messages, system, json_mode, FALSE)
    \/ \E messages \in SeqToolMessages, tools \in ToolSets,
          max_iterations \in IterationLimits :
          CompleteWithTools(messages, <<>>, tools, max_iterations)
    \/ Reset

Spec == Init /\ [][Next]_vars

(***************************************************************************)
(* SpecRequest: a caller holds one request, drawn at the start from every  *)
(* shape of input, and makes it any number of times, with resets.          *)
(***************************************************************************)
CompleteRequest(messages, system, json_mode) ==
    [NoCall EXCEPT !.op = "complete", !.messages = messages,
                   !.system = system, !.json_mode = json_mode]

ToolsRequest(messages, system, tools, max_iterations) ==
    [NoCall EXCEPT !.op = "complete_with_tools", !.messages = messages,
                   !.system = system, !.tools = tools,
                   !.max_iterations = max_iterations]

UserKeywords == <<<<"s","e","a","r","c","h">>, <<"s","u","m","m","a","r">>, <<"p","a","r","s","e">>, <<"e","x","t","r","a","c","t">>>>
SystemKeywords == <<<<"e","v","a","l","u","a","t">>, <<"q","u","a","l","i","t","y">>, <<"w","r","i","t","e">>, <<"r","e","p","o","r","t">>>>

RECURSIVE Chosen(_, _, _)
Chosen(words, S, i) ==
    IF i > Len(words) THEN <<>>
    ELSE (IF i \in S THEN <<words[i]>> ELSE <<>>) \o Chosen(words, S, i + 1)

\* the words of S, separated by blanks
KeywordText(words, S) == Join(Chosen(words, S, 1), <<" ">>)

\* every subset of the eight substrings, split over the user message and system
KeywordRequests ==
    {CompleteRequest(<<Message(USER, KeywordText(UserKeywords, U))>>,
                     KeywordText(SystemKeywords, S), FALSE) :
        U \in SUBSET (1..Len(UserKeywords)), S \in SUBSET (1..Len(SystemKeywords))}

\* histories of every length up to MaxMsgs over a few kinds of message: upper
\* case, a keyword split over the user message and system, other roles, no content
MessageKinds ==
    {Message(USER, <<"S","e","a","r","c","h"," ","T","h","e"," ","D","o","c","s">>), Message(USER, <<"p","l","e","a","s","e"," ","s","u","m">>),
     Message(ASSISTANT, <<"e","x","t","r","a","c","t"," ","d","a","t","a">>), MessageNoContent(USER)}
Histories == UNION {[1..n -> MessageKinds] : n \in 0..MaxMsgs}
ListSystems == {<<>>, <<"m","a","r","i","z","e"," ","t","h","i","s">>, <<"Y","o","u"," ","W","R","I","T","E"," ","r","e","p","o","r","t","s">>}
ListRequests ==
    {CompleteRequest(messages, system, json_mode) :
        messages \in Histories, system \in ListSystems, json_mode \in BOOLEAN}

ToolsRequests ==
    {ToolsRequest(messages, <<>>, tools, max_iterations) :
        messages \in SeqToolMessages \cup {<<Message(ASSISTANT, <<"o","k">>), Message(USER, <<"a","d","d"," ","2"," ","a","n","d"," ","2">>)>>},
        tools \in ToolSets, max_iterations \in IterationLimits}

Requests == KeywordRequests \cup ListRequests \cup ToolsRequests

CallComplete ==
    /\ request.op = "complete"
    /\ Complete(request.messages, request.system, request.json_mode, FALSE)

CallCompleteWithTools ==
    /\ request.op = "complete_with_tools"
    /\ CompleteWithTools(request.messages, request.system, request.tools,
                         request.max_iterations)

InitRequest ==
    /\ InitProvider
    /\ request \in Requests
    /\ IdleThreads
    /\ FreshLogging

NextRequest == CallComplete \/ CallCompleteWithTools \/ Reset

SpecRequest == InitRequest /\ [][NextRequest]_vars

(***************************************************************************)
(* SpecRepeat: one complete() request is repeated, with other calls and    *)
(* resets in between; any one of the repeated calls may be remembered.     *)
(***************************************************************************)
RepeatRequests ==
    {CompleteRequest(messages, system, json_mode) :
        messages \in SeqMessages, system \in SeqSystems, json_mode \in BOOLEAN}

RepeatComplete ==
    \E remember \in BOOLEAN :
        Complete(request.messages, request.system, request.json_mode, remember)

OtherComplete ==
    \E json_mode \in BOOLEAN :
        Complete(<<Message(USER, <<"w","r","i","t","e"," ","i","t"," ","u","p">>)>>, <<>>, json_mode, FALSE)

OtherCompleteWithTools ==
    CompleteWithTools(<<>>, <<>>, Some(<<Tool(CALCULATOR)>>), 10)

InitRepeat ==
    /\ InitProvider
    /\ request \in RepeatRequests
    /\ IdleThreads
    /\ FreshLogging

NextRepeat == RepeatComplete \/ OtherComplete \/ OtherCompleteWithTools \/ Reset

SpecRepeat == InitRepeat /\ [][NextRepeat]_vars

(***************************************************************************)
(* Claims about MockLLMProvider.                                           *)
(***************************************************************************)
IsCall(call) == call.op \in {"complete", "complete_with_tools"}

\* C1: call_count is the number of complete / complete_with_tools calls made
\* since construction or since the most recent reset(): 0 at construction,
\* one more after each call of either operation, 0 after reset().
C1_CountIsCallsSinceReset ==
    /\ call_count = made
    /\ last.op \in {"none", "reset"} => call_count = 0
    /\ IsCall(last) => call_count = last.count_before + 1

C1_Witness ==
    /\ last.op = "complete_with_tools"
    /\ last.count_before = 1
    /\ call_count = 2

\* C2: with a configured override (any value of default_response, the empty
\* string included) complete() returns the override as content, for every
\* input and both values of json_mode.
C2_OverrideAlwaysWins ==
    (last.op = "complete" /\ ~default_response.is_none)
        => last.response.content = default_response.value

\* C3: with json_mode=True the content of complete() is valid JSON text, on
\* every configuration of the provider.
C3_JsonModeIsValidJson ==
    (last.op = "complete" /\ last.json_mode) => IsValidJSON(last.response.content)

\* The categories of the contextual response policy, in priority order, and
\* the response of each.
Categories ==
    <<{<<"s","e","a","r","c","h">>}, {<<"s","u","m","m","a","r">>}, {<<"p","a","r","s","e">>, <<"e","x","t","r","a","c","t">>},
      {<<"e","v","a","l","u","a","t">>, <<"q","u","a","l","i","t","y">>}, {<<"w","r","i","t","e">>, <<"r","e","p","o","r","t">>}>>
CannedResponses ==
    <<SEARCH_RESPONSE, SUMMARY_RESPONSE, PARSED_RESPONSE, EVALUATION_RESPONSE,
      REPORT_RESPONSE>>
Matching(text) ==
    {k \in 1..Len(Categories) : \E word \in Categories[k] : Contains(text, word)}
Lowest(S) == CHOOSE k \in S : \A j \in S : k <= j
Highest(S) == CHOOSE k \in S : \A j \in S : j <= k
ExpectedResponse(text, count) ==
    IF Matching(text) = {} THEN FallbackResponse(count)
    ELSE CannedResponses[Lowest(Matching(text))]

\* C4: with no override and json_mode false, the content is the canned
\* response of the highest-priority category (search > summar > parse/extract
\* > evaluat/quality > write/report) with a substring in the lowercased
\* combined text, and the fallback only when no substring matches.
C4_PriorityClassification ==
    (last.op = "complete" /\ default_response.is_none /\ ~last.json_mode)
        => last.response.content
             = ExpectedResponse(PyLower(last.last_message \o last.system), call_count)

C4_Witness ==
    /\ last.op = "complete" /\ default_response.is_none /\ ~last.json_mode
    /\ Matching(PyLower(last.last_message \o last.system)) = 1..Len(Categories)
    /\ \A word \in UNION {Categories[k] : k \in 1..Len(Categories)} :
           Contains(last.last_message \o last.system, word)
    /\ last.response.content = SEARCH_RESPONSE

\* the part of the tools content before ". Context: ..."
ToolsPart(call) ==
    SubSeq(call.response.content, 1,
           Len(call.response.content) - Len(call.last_message) - Len(<<"."," ","C","o","n","t","e","x","t",":"," ",".",".",".">>))

\* C5: complete_with_tools goes from AWAITING_MODEL straight to DONE for every
\* tool set and every max_iterations: one result with stop_reason "end_turn"
\* naming every offered tool, tool_executor never invoked, no more tool
\* transitions than max_iterations, one counter increment.
C5_ToolsShortCircuit ==
    last.op = "complete_with_tools" =>
        /\ last.loop = <<"AWAITING_MODEL", "DONE">>
        /\ last.response.stop_reason = "end_turn"
        /\ ~last.tools.is_none =>
              \A i \in 1..Len(last.tools.value) :
                  Contains(ToolsPart(last), last.tools.value[i].name)
        /\ last.executor_calls = 0
        /\ Cardinality({i \in 1..Len(last.loop) : last.loop[i] = "EXECUTING_TOOL"})
              <= last.max_iterations
        /\ call_count = last.count_before + 1

C5_Witness ==
    /\ last.op = "complete_with_tools"
    /\ last.max_iterations = 0
    /\ ~last.tools.is_none /\ Len(last.tools.value) = 2
    /\ Len(last.last_message) = ContextLimit

SameArguments(a, b) ==
    /\ a.messages = b.messages
    /\ a.system = b.system
    /\ a.json_mode = b.json_mode

MatchesCategory(call) == Matching(PyLower(call.last_message \o call.system)) # {}

DictLength(msg) ==
    Len(<<"{","'","r","o","l","e","'",":"," ","}">>) + Len(msg.role) + 2
    + (IF msg.has_content THEN Len(<<","," ","'","c","o","n","t","e","n","t","'",":"," ">>) + Len(msg.content) + 2 ELSE 0)

RECURSIVE SumDictLengths(_)
SumDictLengths(messages) ==
    IF messages = <<>> THEN 0
    ELSE DictLength(Head(messages)) + SumDictLengths(Tail(messages))

SerializedLength(messages) ==
    2 + SumDictLengths(messages)
    + (IF messages = <<>> THEN 0 ELSE 2 * (Len(messages) - 1))

\* C8: in every result of complete and complete_with_tools output_tokens is
\* len(content) // 4 and input_tokens is len(str(messages)) // 4, both >= 0.
C8_TokenAccounting ==
    IsCall(last) =>
        /\ last.response.output_tokens * 4 <= Len(last.response.content)
        /\ Len(last.response.content) < (last.response.output_tokens + 1) * 4
        /\ last.response.input_tokens * 4 <= SerializedLength(last.messages)
        /\ SerializedLength(last.messages) < (last.response.input_tokens + 1) * 4
        /\ last.response.output_tokens >= 0
        /\ last.response.input_tokens >= 0

C8_Witness ==
    /\ last.op = "complete_with_tools"
    /\ Len(last.messages) = 1
    /\ Len(last.last_message) = ContextLimit
    /\ Len(last.response.content) % 4 # 0
    /\ SerializedLength(last.messages) % 4 # 0
    /\ last.response.input_tokens > 0

UserIndexes(messages) == {i \in 1..Len(messages) : messages[i].role = USER}
ExpectedUserText(messages) ==
    IF UserIndexes(messages) = {} THEN <<>>
    ELSE LET msg == messages[Highest(UserIndexes(messages))]
         IN IF msg.has_content THEN msg.content ELSE <<>>

\* C9: complete classifies the content of the last message with role "user"
\* (the empty string when there is none, or the history is empty) followed by
\* the system string, and always returns a result with stop_reason "end_turn".
C9_LastUserMessageClassified ==
    last.op = "complete" =>
        /\ last.last_message = ExpectedUserText(last.messages)
        /\ last.response.stop_reason = "end_turn"
        /\ (default_response.is_none /\ ~last.json_mode) =>
              last.response.content
                = ExpectedResponse(
                      PyLower(ExpectedUserText(last.messages) \o last.system),
                      call_count)

C9_Witness ==
    /\ last.op = "complete" /\ default_response.is_none /\ ~last.json_mode
    /\ Len(last.messages) = 2
    /\ last.messages[1].role = USER /\ last.messages[2].role = USER
    /\ last.messages[1].content = <<"S","e","a","r","c","h"," ","T","h","e"," ","D","o","c","s">>
    /\ last.messages[2].content = <<"p","l","e","a","s","e"," ","s","u","m">>
    /\ last.system = <<"m","a","r","i","z","e"," ","t","h","i","s">>
    /\ last.response.content = SUMMARY_RESPONSE

(***************************************************************************)
(* SpecThreads: threads call complete / complete_with_tools on one         *)
(* provider with no lock.  self._call_count += 1 is a load of the          *)
(* attribute followed by a store of the loaded value plus one; a thread    *)
(* switch may fall between the two.  The rest of either method reads the   *)
(* counter and never writes it.                                            *)
(***************************************************************************)
ThreadOps == {"complete", "complete_with_tools"}

\* a thread enters a call and loads self._call_count
ThreadLoad(t, op) ==
    /\ pc[t] = "idle"
    /\ started < ThreadCalls
    /\ pc' = [pc EXCEPT ![t] = "loaded"]
    /\ tmp' = [tmp EXCEPT ![t] = call_count]
    /\ op_of' = [op_of EXCEPT ![t] = op]
    /\ started' = started + 1
    /\ UNCHANGED <<providerVars, finished, logVars>>

\* it stores the incremented value
ThreadStore(t) ==
    /\ pc[t] = "loaded"
    /\ call_count' = NextCount(tmp[t])
    /\ pc' = [pc EXCEPT ![t] = "stored"]
    /\ UNCHANGED <<model, default_response, made, last, remembered, request,
                   tmp, op_of, started, finished, logVars>>

\* it builds its LLMResponse and returns
ThreadReturn(t) ==
    /\ pc[t] = "stored"
    /\ pc' = [pc EXCEPT ![t] = "idle"]
    /\ op_of' = [op_of EXCEPT ![t] = "none"]
    /\ finished' = finished + 1
    /\ UNCHANGED <<providerVars, tmp, started, logVars>>

InitThreads ==
    /\ InitProvider
    /\ request = NoCall
    /\ IdleThreads
    /\ FreshLogging

NextThreads ==
    \E t \in ThreadIds :
        \/ \E op \in ThreadOps : ThreadLoad(t, op)
        \/ ThreadStore(t)
        \/ ThreadReturn(t)

SpecThreads == InitThreads /\ [][NextThreads]_vars

StoresDone == finished + Cardinality({t \in ThreadIds : pc[t] = "stored"})

\* C6: without a lock, concurrent complete / complete_with_tools calls can
\* lose increments: call_count never exceeds the number of calls (of stores
\* done), and there is an interleaving where all N calls have returned and
\* call_count is less than N.
C6_CountNeverExceedsCalls ==
    /\ call_count <= StoresDone
    /\ StoresDone <= started
    /\ StoresDone > 0 => call_count >= 1

C6_Witness ==
    /\ \A t \in ThreadIds : pc[t] = "idle"
    /\ finished = started
    /\ finished >= 2
    /\ call_count < finished

(***************************************************************************)
(* logging_config.py.  A logger of loggerDict is absent, a placeholder     *)
(* (made for the parent of a dotted name) or a logger with a level; a      *)
(* handler is a record of its kind, level and format.                      *)
(***************************************************************************)
VALID_LOG_LEVELS == {<<"D","E","B","U","G">>, <<"I","N","F","O">>, <<"W","A","R","N","I","N","G">>, <<"E","R","R","O","R">>, <<"C","R","I","T","I","C","A","L">>}

\* getattr(logging, name) of a valid level name
LoggingLevel(name) ==
    CASE name = <<"D","E","B","U","G">> -> 10
      [] name = <<"I","N","F","O">> -> 20
      [] name = <<"W","A","R","N","I","N","G">> -> 30
      [] name = <<"E","R","R","O","R">> -> 40
      [] name = <<"C","R","I","T","I","C","A","L">> -> 50

ValidateLogLevelNoUpper(level) ==
    IF level \notin VALID_LOG_LEVELS
    THEN [raises |-> TRUE, value |-> 0]
    ELSE [raises |-> FALSE, value |-> LoggingLevel(level)]

\* _validate_log_level: the numeric level, or ValueError
ValidateLogLevel(level) ==
    LET level_upper == PyUpper(level) IN
    IF level_upper \notin VALID_LOG_LEVELS
    THEN [raises |-> TRUE, value |-> 0]
    ELSE [raises |-> FALSE, value |-> LoggingLevel(level_upper)]

TIMESTAMP_FORMAT == "%(asctime)s - %(name)s - %(levelname)s - %(message)s"
PLAIN_FORMAT == "%(name)s - %(levelname)s - %(message)s"

\* the default format when format_string is None
FormatString(format_string, include_timestamp) ==
    IF ~format_string.is_none THEN format_string.value
    ELSE IF include_timestamp THEN TIMESTAMP_FORMAT
    ELSE PLAIN_FORMAT

Handler(kind, level, format) == [kind |-> kind, level |-> level, format |-> format]

\* the names a dotted name lies under: "framework" for "framework.llm"
ParentNames(name) ==
    {SubSeq(name, 1, i - 1) : i \in {j \in 1..Len(name) : name[j] = "."}}

\* logging.getLogger(name): the logger is created at NOTSET if it is absent or
\* a placeholder, and absent parents get placeholders
GetLoggerDict(dict, name) ==
    [n \in DOMAIN dict |->
        IF n = name
        THEN (IF dict[n].kind = "logger" THEN dict[n]
              ELSE [kind |-> "logger", level |-> 0])
        ELSE IF n \in ParentNames(name) /\ dict[n].kind = "absent"
             THEN [kind |-> "placeholder", level |-> 0]
        ELSE dict[n]]

\* the loop of set_framework_log_level over loggerDict
SetFrameworkLevels(dict, numeric_level) ==
    [n \in DOMAIN dict |->
        IF dict[n].kind # "absent" /\ StartsWith(n, <<"f","r","a","m","e","w","o","r","k">>)
        THEN [kind |-> "logger", level |-> numeric_level]
        ELSE dict[n]]

\* setup_logging(level, log_file, format_string, include_timestamp); mkdir_ok
\* and open_ok are what the file system answers to mkdir and to opening the file
SetupLogging(level, log_file, format_string, include_timestamp, mkdir_ok, open_ok) ==
    LET checked == ValidateLogLevel(level)
        numeric_level == checked.value
        format == FormatString(format_string, include_timestamp)
        console == Handler("stream", numeric_level, format)
        file == Handler("file", numeric_level, format)
    IN /\ log_call' = [op |-> "setup_logging", level |-> level, name |-> <<>>]
       /\ IF checked.raises
          THEN /\ outcome' = "ValueError"
               /\ UNCHANGED <<root_level, root_handlers>>
          ELSE /\ root_level' = numeric_level
               /\ IF log_file.is_none
                  THEN root_handlers' = <<console>> /\ outcome' = "ok"
                  ELSE IF ~mkdir_ok \/ ~open_ok
                  THEN root_handlers' = <<console>> /\ outcome' = "OSError"
                  ELSE root_handlers' = <<console, file>> /\ outcome' = "ok"
       /\ UNCHANGED <<loggerDict, providerVars, threadVars>>

\* get_logger(name)
GetLogger(name) ==
    /\ log_call' = [op |-> "get_logger", level |-> <<>>, name |-> name]
    /\ loggerDict' = GetLoggerDict(loggerDict, name)
    /\ outcome' = "ok"
    /\ UNCHANGED <<root_level, root_handlers, providerVars, threadVars>>

\* set_framework_log_level(level)
SetFrameworkLogLevel(level) ==
    LET checked == ValidateLogLevel(level) IN
    /\ log_call' = [op |-> "set_framework_log_level", level |-> level, name |-> <<>>]
    /\ IF checked.raises
       THEN outcome' = "ValueError" /\ UNCHANGED loggerDict
       ELSE /\ outcome' = "ok"
            /\ loggerDict' = SetFrameworkLevels(loggerDict, checked.value)
    /\ UNCHANGED <<root_level, root_handlers, providerVars, threadVars>>

\* disable_framework_logging(): logging.CRITICAL + 1 on the "framework" logger
DisableFrameworkLogging ==
    /\ log_call' = [op |-> "disable_framework_logging", level |-> <<>>, name |-> <<>>]
    /\ loggerDict' =
          [GetLoggerDict(loggerDict, <<"f","r","a","m","e","w","o","r","k">>) EXCEPT
              ![<<"f","r","a","m","e","w","o","r","k">>] = [kind |-> "logger",
                                  level |-> LoggingLevel(<<"C","R","I","T","I","C","A","L">>) + 1]]
    /\ outcome' = "ok"
    /\ UNCHANGED <<root_level, root_handlers, providerVars, threadVars>>

\* the level arguments: the five names, other spellings of them, other words
LevelArguments == VALID_LOG_LEVELS \cup {<<"d","e","b","u","g">>, <<"T","R","A","C","E">>, <<>>}
CUSTOM_FORMAT == "%(levelname)s: %(message)s"
GetLoggerNames == {<<"f","r","a","m","e","w","o","r","k",".","l","l","m">>, <<"a","p","p">>}

\* setup_logging's other arguments: to the console only, in each format, or to
\* a file as well, with each answer of the file system
SetupArguments ==
    {[log_file |-> None, format_string |-> f, include_timestamp |-> ts,
      mkdir_ok |-> TRUE, open_ok |-> TRUE] :
        f \in {None}, ts \in BOOLEAN}
    \cup {[log_file |-> None, format_string |-> Some(CUSTOM_FORMAT),
           include_timestamp |-> TRUE, mkdir_ok |-> TRUE, open_ok |-> TRUE]}
    \cup {[log_file |-> Some("agent.log"), format_string |-> None,
           include_timestamp |-> TRUE, mkdir_ok |-> m, open_ok |-> o] :
        m \in BOOLEAN, o \in BOOLEAN}

\* no provider call is made here: one provider, left alone
InitLogging ==
    /\ InitProvider
    /\ default_response = None
    /\ request = NoCall
    /\ IdleThreads
    /\ FreshLogging

NextLogging ==
    \/ \E level \in LevelArguments, a \in SetupArguments :
          SetupLogging(level, a.log_file, a.format_string, a.include_timestamp,
                       a.mkdir_ok, a.open_ok)
    \/ \E name \in GetLoggerNames : GetLogger(name)
    \/ \E level \in LevelArguments : SetFrameworkLogLevel(level)
    \/ DisableFrameworkLogging

SpecLogging == InitLogging /\ [][NextLogging]_vars

\* the standard level names and their numbers
StandardLevels ==
    {<<<<"D","E","B","U","G">>, 10>>, <<<<"I","N","F","O">>, 20>>, <<<<"W","A","R","N","I","N","G">>, 30>>, <<<<"E","R","R","O","R">>, 40>>,
     <<<<"C","R","I","T","I","C","A","L">>, 50>>}
StandardNumbers(level) ==
    LET upper == PyUpper(level) IN {p[2] : p \in {q \in StandardLevels : q[1] = upper}}
TakesLevel(call) == call.op \in {"setup_logging", "set_framework_log_level"}

\* C10: setup_logging and set_framework_log_level with a level whose upper-cased
\* form is not DEBUG, INFO, WARNING, ERROR or CRITICAL end in ValueError and
\* leave the root level, the root handlers and the framework loggers as they
\* were; setup_logging with a valid level leaves the root level at that level,
\* and no other call changes the root level.
C10_InvalidLevelRejected ==
    [][ LET numbers == StandardNumbers(log_call'.level)
            setup == log_call'.op = "setup_logging"
        IN /\ (TakesLevel(log_call') /\ numbers = {})
               => /\ outcome' = "ValueError"
                  /\ UNCHANGED <<root_level, root_handlers, loggerDict>>
           /\ (setup /\ numbers # {})
               => /\ numbers = {root_level'}
                  /\ outcome' # "ValueError"
           /\ ~(setup /\ numbers # {}) => root_level' = root_level
      ]_vars

C10_Witness ==
    /\ log_call.op = "setup_logging"
    /\ log_call.level = <<"T","R","A","C","E">>
    /\ outcome = "ValueError"
    /\ root_level = 10
    /\ Len(root_handlers) = 2
    /\ loggerDict[<<"f","r","a","m","e","w","o","r","k",".","l","l","m">>].kind = "logger"

====
